---- MODULE Spec2Model ----
(***************************************************************************)
(* Sale / stock consistency, order workflow, M-Pesa reconciliation and the *)
(* sequence counter of the jenifer-inventory backend.                      *)
(*                                                                         *)
(* The persistent store is the state.  A request handler that runs alone   *)
(* is one action (Spec, SpecOrder); the handlers whose interleavings       *)
(* matter are split at their awaits (SpecCounter, SpecSaleRace, SpecMpesa).*)
(* Money is kept in integer units so that all arithmetic is exact.         *)
(***************************************************************************)
EXTENDS Integers, Sequences, FiniteSets, TLC

VARIABLES
    stock,            \* product -> inventory.currentStock
    stockMovements,   \* product -> sequence of StockMovement records
    sales,            \* the Sale collection, in insertion order
    history,          \* what earlier requests read and returned
    counters,         \* the Counter collection: key -> NoDoc or a document
    today,            \* the calendar date new Date() returns
    orders,           \* the Order collection, in insertion order
    mpesa,            \* the MpesaTransaction collection: id -> document
    clock,            \* milliseconds since start, for lastQueryAt
    pc,               \* position of each in-flight request handler
    loc,              \* in-memory documents and locals of each handler
    resp,             \* the last HTTP response sent
    budget            \* requests still admitted, per kind

vars == << stock, stockMovements, sales, history, counters, today,
           orders, mpesa, clock, pc, loc, resp, budget >>

-----------------------------------------------------------------------------
(* Bounds of the exploration *)

MaxRequests == 3

(* Program constants *)

MinStock == 0
MovementCap == 100
TaxRate == 16

NoDoc == [ none |-> TRUE ]

-----------------------------------------------------------------------------
(* Products: p1 is tracked and refuses backorders; p2 is not tracked and   *)
(* allows them.                                                            *)

Products == {"p1", "p2"}

trackInventory == [p \in Products |-> p = "p1"]

allowBackorder == [p \in Products |-> p = "p2"]

sellingPrice == [p \in Products |-> 100]

InitialStock == [p \in Products |-> 2]

-----------------------------------------------------------------------------
(* Product.updateStock *)

DecreasingTypes == {"sale", "damage", "transfer"}
IncreasingTypes == {"purchase", "return", "adjustment"}
MovementTypes == DecreasingTypes \cup IncreasingTypes

NewStock_ReturnSubtracts(previousStock, quantity, type) ==
    IF type \in DecreasingTypes \cup {"return"}
    THEN previousStock - quantity
    ELSE previousStock + quantity

NewStock(previousStock, quantity, type) ==
    CASE type \in DecreasingTypes -> previousStock - quantity
      [] type \in IncreasingTypes -> previousStock + quantity
      [] OTHER -> previousStock

StockAccepted_NoCheck(p, newStock) == TRUE

\* The throw of updateStock and the schema's min validator run by save().
StockAccepted(p, newStock) ==
    /\ ~(newStock < 0 /\ ~allowBackorder[p])
    /\ newStock >= MinStock

Movement_SwapsStock(type, quantity, previousStock, newStock, reference, reason) ==
    [ type |-> type, quantity |-> quantity, previousStock |-> newStock,
      newStock |-> previousStock, reference |-> reference, reason |-> reason ]

Movement(type, quantity, previousStock, newStock, reference, reason) ==
    [ type |-> type, quantity |-> quantity, previousStock |-> previousStock,
      newStock |-> newStock, reference |-> reference, reason |-> reason ]

LastN(s, n) == IF Len(s) > n THEN SubSeq(s, Len(s) - n + 1, Len(s)) ELSE s

\* inv is the pair of stock and movement maps; the result says whether the
\* call returned (ok) and what the store holds afterwards.
updateStock(inv, p, previousStock, quantity, type, reference, reason) ==
    LET newStock == NewStock(previousStock, quantity, type)
        m == Movement(type, quantity, previousStock, newStock, reference, reason)
    IN  IF StockAccepted(p, newStock)
        THEN [ ok |-> TRUE,
               stock |-> [inv.stock EXCEPT ![p] = newStock],
               mov |-> [inv.mov EXCEPT ![p] = LastN(Append(@, m), MovementCap)] ]
        ELSE [ ok |-> FALSE, stock |-> inv.stock, mov |-> inv.mov ]

Inv == [ stock |-> stock, mov |-> stockMovements ]

-----------------------------------------------------------------------------
(* Counter.getNextSequence, run without interleaving *)

Dates == [ y : 0..1, m : 0..1, d : 0..1 ]

ShouldReset(resetPeriod, now, lastReset) ==
    CASE resetPeriod = "daily" -> now # lastReset
      [] resetPeriod = "monthly" -> now.m # lastReset.m \/ now.y # lastReset.y
      [] resetPeriod = "yearly" -> now.y # lastReset.y
      [] OTHER -> FALSE

NewCounter(resetPeriod, now) ==
    [ seq |-> 0, resetPeriod |-> resetPeriod, lastReset |-> now ]

NextCounter_SkipsOne(counter, now) ==
    IF ShouldReset(counter.resetPeriod, now, counter.lastReset)
    THEN [counter EXCEPT !.seq = 1, !.lastReset = now]
    ELSE [counter EXCEPT !.seq = @ + 2]

NextCounter(counter, now) ==
    IF ShouldReset(counter.resetPeriod, now, counter.lastReset)
    THEN [counter EXCEPT !.seq = 1, !.lastReset = now]
    ELSE [counter EXCEPT !.seq = @ + 1]

\* The document the call leaves in the store; its seq is the value returned.
getNextSequence(cs, key, resetPeriod, now) ==
    IF cs[key] = NoDoc THEN NewCounter(resetPeriod, now)
    ELSE NextCounter(cs[key], now)

ReceiptNumber(now, sequence) == [ date |-> now, seq |-> sequence ]

-----------------------------------------------------------------------------
(* Sale *)

\* Request inputs: quantities are positive integers, item arrays are not
\* empty; one- and two-line requests over quantities 1 and 2 are explored.
Quantities == {1, 2}

ItemLists(S) == { << a >> : a \in S } \cup { << a, b >> : a, b \in S }

SaleItemInputs == [ product : Products, quantity : Quantities ]

\* pre-save totals hook: tax is charged on the discounted amount.  The sale
\* handlers are explored with amounts in whole currency units at the rate
\* TaxRate; what the hook computes from the item it is given, with the rate
\* that item holds, is SpecTotals below.
ItemSubtotal(unitPrice, quantity, discountPct) ==
    LET itemSubtotal == unitPrice * quantity
        discount == (itemSubtotal * discountPct) \div 100
        taxableAmount == itemSubtotal - discount
        tax == (taxableAmount * TaxRate) \div 100
    IN  taxableAmount + tax

SaleItem(item) ==
    [ product |-> item.product, quantity |-> item.quantity,
      unitPrice |-> sellingPrice[item.product],
      subtotal |-> ItemSubtotal(sellingPrice[item.product], item.quantity, 0) ]

RECURSIVE SumSubtotals(_)
SumSubtotals(items) ==
    IF items = << >> THEN 0
    ELSE Head(items).subtotal + SumSubtotals(Tail(items))

\* payment of a request that names a method only: the schema fills in
\* status "paid"; transactionId is payment.details[0].transactionId.
Payment(method, transactionId) ==
    [ method |-> method, status |-> "paid", transactionId |-> transactionId ]

CashPayment == Payment("cash", "")

NewSale(items, receiptNumber) ==
    LET its == [i \in 1..Len(items) |-> SaleItem(items[i])]
    IN  [ receiptNumber |-> receiptNumber, items |-> its,
          total |-> SumSubtotals(its), status |-> "completed",
          voidInfo |-> NoDoc, refundInfo |-> NoDoc, payment |-> CashPayment ]

\* createSale's validation loop: the first item that fails decides.
InsufficientStock(st, item) ==
    /\ trackInventory[item.product]
    /\ st[item.product] < item.quantity
    /\ ~allowBackorder[item.product]

StockAvailable(st, items) ==
    \A i \in 1..Len(items) : ~InsufficientStock(st, items[i])

\* createSale's deduction loop: stops at the first updateStock that throws,
\* keeping what the earlier iterations saved.
RECURSIVE DeductItems(_, _, _, _)
DeductItems(inv, items, reference, reason) ==
    IF items = << >> THEN [ ok |-> TRUE, stock |-> inv.stock, mov |-> inv.mov ]
    ELSE LET p == Head(items).product
             r == IF trackInventory[p]
                  THEN updateStock(inv, p, inv.stock[p], Head(items).quantity,
                                   "sale", reference, reason)
                  ELSE [ ok |-> TRUE, stock |-> inv.stock, mov |-> inv.mov ]
         IN  IF r.ok THEN DeductItems(r, Tail(items), reference, reason)
             ELSE r

\* Sale.void's restore loop.
RECURSIVE RestoreItems(_, _, _, _)
RestoreItems(inv, items, reference, reason) ==
    IF items = << >> THEN [ ok |-> TRUE, stock |-> inv.stock, mov |-> inv.mov ]
    ELSE LET p == Head(items).product
             r == updateStock(inv, p, inv.stock[p], Head(items).quantity,
                              "return", reference, reason)
         IN  IF r.ok THEN RestoreItems(r, Tail(items), reference, reason)
             ELSE r

\* Array.find: the first item of the sale with that product, if any.
FindSaleItem(sale, productId) ==
    LET idx == { i \in 1..Len(sale.items) : sale.items[i].product = productId }
    IN  IF idx = {} THEN NoDoc
        ELSE sale.items[CHOOSE i \in idx : \A j \in idx : i <= j]

\* Sale.refund's loop over the requested items; acc collects refundedItems.
RECURSIVE RefundItems(_, _, _, _)
RefundItems(inv, sale, req, acc) ==
    IF req = << >>
    THEN [ ok |-> TRUE, stock |-> inv.stock, mov |-> inv.mov, refunded |-> acc ]
    ELSE LET refundItem == Head(req)
             saleItem == FindSaleItem(sale, refundItem.productId)
             failed == [ ok |-> FALSE, stock |-> inv.stock, mov |-> inv.mov,
                         refunded |-> acc ]
         IN  IF saleItem = NoDoc THEN failed
             ELSE IF refundItem.quantity > saleItem.quantity THEN failed
             ELSE LET refundAmount ==
                          (saleItem.subtotal \div saleItem.quantity)
                              * refundItem.quantity
                      r == updateStock(inv, refundItem.productId,
                                       inv.stock[refundItem.productId],
                                       refundItem.quantity, "return",
                                       sale.receiptNumber, "refund")
                  IN  IF r.ok
                      THEN RefundItems(r, sale, Tail(req),
                                       Append(acc,
                                              [ product |-> refundItem.productId,
                                                quantity |-> refundItem.quantity,
                                                amount |-> refundAmount ]))
                      ELSE failed

RECURSIVE SumAmounts(_)
SumAmounts(refunded) ==
    IF refunded = << >> THEN 0
    ELSE Head(refunded).amount + SumAmounts(Tail(refunded))

RefundStatus(totalRefunded, total) ==
    IF totalRefunded >= total THEN "refunded" ELSE "partial_refund"

-----------------------------------------------------------------------------
(* Responses *)

Response(op, id, arg, code) == [ op |-> op, id |-> id, arg |-> arg, code |-> code ]

NoResponse == Response("none", 0, "", 0)

Spend(kind) == [budget EXCEPT ![kind] = @ - 1]

-----------------------------------------------------------------------------
(* Sale handlers, each run to completion *)

IsVoided_Never(sale) == FALSE

\* The guard both Sale.void and Sale.refund start with.
IsVoided(sale) == sale.status = "voided"

ReceiptTaken(ss, receiptNumber) ==
    \E i \in 1..Len(ss) : ss[i].receiptNumber = receiptNumber

CreateSale(items) ==
    /\ budget["request"] > 0
    /\ budget' = Spend("request")
    /\ UNCHANGED << today, orders, mpesa, clock, pc, loc >>
    /\ IF ~StockAvailable(stock, items)
       THEN /\ resp' = Response("createSale", 0, "", 400)
            /\ UNCHANGED << stock, stockMovements, sales, history, counters >>
       ELSE LET doc == getNextSequence(counters, "receipt", "never", today)
                sale == NewSale(items, ReceiptNumber(today, doc.seq))
                r == DeductItems(Inv, sale.items, sale.receiptNumber, "none")
            IN  /\ counters' = [counters EXCEPT !["receipt"] = doc]
                /\ IF ReceiptTaken(sales, sale.receiptNumber)
                   THEN /\ resp' = Response("createSale", 0, "", 500)
                        /\ UNCHANGED << stock, stockMovements, sales, history >>
                   ELSE /\ sales' = Append(sales, sale)
                        /\ history' = [history EXCEPT !.stockBeforeSale = Append(@, stock)]
                        /\ stock' = r.stock
                        /\ stockMovements' = r.mov
                        /\ resp' = Response("createSale", Len(sales) + 1, "",
                                            IF r.ok THEN 201 ELSE 500)

VoidSale(s) ==
    /\ budget["request"] > 0
    /\ budget' = Spend("request")
    /\ UNCHANGED << history, counters, today, orders, mpesa, clock, pc, loc >>
    /\ IF IsVoided(sales[s])
       THEN /\ resp' = Response("voidSale", s, "", 400)
            /\ UNCHANGED << stock, stockMovements, sales >>
       ELSE LET r == RestoreItems(Inv, sales[s].items, sales[s].receiptNumber, "void")
            IN  /\ stock' = r.stock
                /\ stockMovements' = r.mov
                /\ sales' = IF r.ok
                            THEN [sales EXCEPT ![s].status = "voided",
                                               ![s].voidInfo = [ reason |-> "void" ]]
                            ELSE sales
                /\ resp' = Response("voidSale", s, "", IF r.ok THEN 200 ELSE 400)

RefundRequests == ItemLists([ productId : Products, quantity : Quantities ])

RefundSale(s, req) ==
    /\ budget["request"] > 0
    /\ budget' = Spend("request")
    /\ UNCHANGED << counters, today, orders, mpesa, clock, pc, loc >>
    /\ IF IsVoided(sales[s])
       THEN /\ resp' = Response("refundSale", s, "", 400)
            /\ UNCHANGED << stock, stockMovements, sales, history >>
       ELSE LET r == RefundItems(Inv, sales[s], req, << >>)
                totalRefunded == SumAmounts(r.refunded)
            IN  /\ stock' = r.stock
                /\ stockMovements' = r.mov
                /\ sales' = IF r.ok
                            THEN [sales EXCEPT
                                    ![s].refundInfo =
                                        [ refundedItems |-> r.refunded,
                                          totalRefunded |-> totalRefunded ],
                                    ![s].status =
                                        RefundStatus(totalRefunded, sales[s].total)]
                            ELSE sales
                /\ history' = IF r.ok
                                THEN [history EXCEPT !.refundLog =
                                        Append(@, [ sale |-> s, items |-> r.refunded ])]
                                ELSE history
                /\ resp' = Response("refundSale", s, "", IF r.ok THEN 200 ELSE 400)

\* Any integer quantity and any movement type pass validation; explored are
\* a purchase, a negative adjustment, and damages smaller and larger than
\* the stock on hand.
AdjustRequests ==
    { [ type |-> "purchase", quantity |-> 1 ],
      [ type |-> "adjustment", quantity |-> -1 ],
      [ type |-> "damage", quantity |-> 1 ],
      [ type |-> "damage", quantity |-> 3 ] }

\* The product controller's updateStock endpoint.
AdjustStock(p, quantity, type) ==
    /\ budget["request"] > 0
    /\ budget' = Spend("request")
    /\ UNCHANGED << sales, history, counters, today, orders, mpesa, clock, pc, loc >>
    /\ LET r == updateStock(Inv, p, stock[p], quantity, type, "manual", "adjust")
       IN  /\ stock' = r.stock
           /\ stockMovements' = r.mov
           /\ resp' = Response("updateStock", 0, p, IF r.ok THEN 200 ELSE 400)

NoCounters == [ k \in {"receipt", "order"} |-> NoDoc ]

Day0 == [ y |-> 0, m |-> 0, d |-> 0 ]

\* stockBeforeSale: per sale, the stock createSale read; refundLog: the
\* refund calls that returned normally; start: the counter an experiment
\* starts from; queries: the stkQuery calls made, with their time.
NoHistory ==
    [ stockBeforeSale |-> << >>, refundLog |-> << >>, start |-> 0,
      queries |-> << >> ]

NoBudget ==
    [ k \in {"request", "poll", "callback", "tick", "order"} |-> 0 ]

Init ==
    /\ stock = InitialStock
    /\ stockMovements = [p \in Products |-> << >>]
    /\ sales = << >>
    /\ history = NoHistory
    /\ counters = NoCounters
    /\ today = Day0
    /\ orders = << >>
    /\ mpesa = << >>
    /\ clock = 0
    /\ pc = << >>
    /\ loc = << >>
    /\ resp = NoResponse
    /\ budget = [NoBudget EXCEPT !["request"] = MaxRequests]

Next ==
    \/ \E items \in ItemLists(SaleItemInputs) : CreateSale(items)
    \/ \E s \in 1..Len(sales) : VoidSale(s)
    \/ \E s \in 1..Len(sales), req \in RefundRequests : RefundSale(s, req)
    \/ \E p \in Products, a \in AdjustRequests :
          AdjustStock(p, a.quantity, a.type)

Spec == Init /\ [][Next]_vars

-----------------------------------------------------------------------------
(* Properties of the sale handlers (Spec) *)

RECURSIVE SumQuantity(_, _)
SumQuantity(items, p) ==
    IF items = << >> THEN 0
    ELSE (IF Head(items).product = p THEN Head(items).quantity ELSE 0)
             + SumQuantity(Tail(items), p)

SoldQuantity(s, p) == SumQuantity(sales[s].items, p)

RECURSIVE RefundedQuantity(_, _, _)
RefundedQuantity(log, s, p) ==
    IF log = << >> THEN 0
    ELSE (IF Head(log).sale = s THEN SumQuantity(Head(log).items, p) ELSE 0)
             + RefundedQuantity(Tail(log), s, p)

\* C1: a product that refuses backorders never has negative currentStock,
\* whatever sequence of sales, voids, refunds and adjustments has run.
C1_StockNeverNegative ==
    \A p \in Products : ~allowBackorder[p] => stock[p] >= 0

\* p1 was sold out, and an adjustment that would have taken it below zero
\* was refused.
C1_Witness ==
    /\ resp = Response("updateStock", 0, "p1", 400)
    /\ stock["p1"] = 0
    /\ \E i \in 1..Len(stockMovements["p1"]) :
          stockMovements["p1"][i].type = "sale"

\* C3: for every sale and product in it, the quantities refunded over all
\* successful refund calls add up to at most the quantity sold.
C3_RefundBound ==
    \A s \in 1..Len(sales) : \A p \in Products :
        RefundedQuantity(history.refundLog, s, p) <= SoldQuantity(s, p)

ItemsOf(s, p) == SelectSeq(sales[s].items, LAMBDA it : it.product = p)

\* C7: voiding a sale right after its creation puts every tracked product's
\* stock back to what it was before the sale, and appends one return
\* movement per original item, carrying the item's quantity.
C7_VoidRestoresStock ==
    [][ \A s \in 1..Len(sales) :
          ( /\ resp = Response("createSale", s, "", 201)
            /\ resp' = Response("voidSale", s, "", 200) )
          => \A p \in Products :
               LET its == ItemsOf(s, p)
                   tail == LastN(stockMovements'[p], Len(its))
               IN  /\ trackInventory[p] => stock'[p] = history.stockBeforeSale[s][p]
                   /\ Len(stockMovements'[p]) = Len(stockMovements[p]) + Len(its)
                   /\ \A i \in 1..Len(its) :
                        /\ tail[i].type = "return"
                        /\ tail[i].quantity = its[i].quantity
                        /\ tail[i].reference = sales[s].receiptNumber
      ]_vars

\* A sale of p1 was created and then voided, and p1 is back at its old stock.
C7_Witness ==
    /\ resp.op = "voidSale" /\ resp.code = 200
    /\ budget["request"] = MaxRequests - 2
    /\ sales[resp.id].status = "voided"
    /\ SoldQuantity(resp.id, "p1") > 0
    /\ stock["p1"] = history.stockBeforeSale[resp.id]["p1"]

-----------------------------------------------------------------------------
(* Counter.getNextSequence with concurrent callers (SpecCounter).  Each    *)
(* await of the function is a step: findById, then create or save.         *)

NumCallers == 2

Callers == 1..NumCallers

ResetPeriods == {"daily", "monthly", "yearly", "never"}

StartSeqs == {0, 1}

Later(d1, d2) ==
    \/ d1.y > d2.y
    \/ d1.y = d2.y /\ d1.m > d2.m
    \/ d1.y = d2.y /\ d1.m = d2.m /\ d1.d > d2.d

\* save() sends only the paths whose value differs from the loaded document.
SaveModified(stored, snap, doc) ==
    [ f \in DOMAIN stored |-> IF doc[f] # snap[f] THEN doc[f] ELSE stored[f] ]

CounterIdle == [ snap |-> NoDoc, doc |-> NoDoc, ret |-> -1 ]

\* const counter = await this.findById(counterId), and the synchronous code
\* up to the next await.
CounterFind(c) ==
    /\ pc[c] = "start"
    /\ LET snap == counters["receipt"]
       IN  IF snap = NoDoc
           THEN /\ pc' = [pc EXCEPT ![c] = "create"]
                /\ loc' = [loc EXCEPT ![c].snap = snap]
           ELSE /\ pc' = [pc EXCEPT ![c] = "save"]
                /\ loc' = [loc EXCEPT ![c].snap = snap,
                                      ![c].doc = NextCounter(snap, today)]
    /\ UNCHANGED << stock, stockMovements, sales, history, counters, today,
                    orders, mpesa, clock, resp, budget >>

\* await this.create({_id: counterId}): a second insert of the same _id is
\* rejected by the store and the call throws.
CounterCreate(c) ==
    /\ pc[c] = "create"
    /\ IF counters["receipt"] = NoDoc
       THEN /\ counters' = [counters EXCEPT !["receipt"] = NewCounter("never", today)]
            /\ pc' = [pc EXCEPT ![c] = "done"]
            /\ loc' = [loc EXCEPT ![c].ret = NewCounter("never", today).seq]
       ELSE /\ pc' = [pc EXCEPT ![c] = "failed"]
            /\ UNCHANGED << counters, loc >>
    /\ UNCHANGED << stock, stockMovements, sales, history, today, orders, mpesa,
                    clock, resp, budget >>

\* await counter.save(); return counter.seq
CounterSave(c) ==
    /\ pc[c] = "save"
    /\ counters' = [counters EXCEPT !["receipt"] =
                        SaveModified(@, loc[c].snap, loc[c].doc)]
    /\ pc' = [pc EXCEPT ![c] = "done"]
    /\ loc' = [loc EXCEPT ![c].ret = loc[c].doc.seq]
    /\ UNCHANGED << stock, stockMovements, sales, history, today, orders, mpesa,
                    clock, resp, budget >>

\* The calendar moves on to a later date.
NextDay(d) ==
    /\ budget["tick"] > 0
    /\ Later(d, today)
    /\ today' = d
    /\ budget' = Spend("tick")
    /\ UNCHANGED << stock, stockMovements, sales, history, counters, orders,
                    mpesa, clock, pc, loc, resp >>

InitCounter ==
    /\ stock = InitialStock
    /\ stockMovements = [p \in Products |-> << >>]
    /\ sales = << >>
    /\ \/ /\ counters = NoCounters
          /\ history = [NoHistory EXCEPT !.start = -1]
       \/ \E k \in StartSeqs, rp \in ResetPeriods :
            /\ counters = [NoCounters EXCEPT !["receipt"] =
                              [ seq |-> k, resetPeriod |-> rp, lastReset |-> Day0 ]]
            /\ history = [NoHistory EXCEPT !.start = k]
    /\ today = Day0
    /\ orders = << >>
    /\ mpesa = << >>
    /\ clock = 0
    /\ pc = [c \in Callers |-> "start"]
    /\ loc = [c \in Callers |-> CounterIdle]
    /\ resp = NoResponse
    /\ budget = [NoBudget EXCEPT !["tick"] = 1]

NextCounterStep ==
    \/ \E c \in Callers : CounterFind(c)
    \/ \E c \in Callers : CounterCreate(c)
    \/ \E c \in Callers : CounterSave(c)
    \/ \E d \in Dates : NextDay(d)

SpecCounter == InitCounter /\ [][NextCounterStep]_vars

\* C4: when N concurrent callers of getNextSequence on an existing counter
\* have all returned and no reset happened, the values they got are exactly
\* start+1 .. start+N.
C4_ConcurrentSequence ==
    ( /\ \A c \in Callers : pc[c] = "done"
      /\ history.start >= 0
      /\ counters["receipt"].lastReset = Day0 /\ today = Day0 )
    => { loc[c].ret : c \in Callers }
           = (history.start + 1) .. (history.start + NumCallers)

-----------------------------------------------------------------------------
(* Two createSale requests in flight at once (SpecSaleRace).  Each await   *)
(* of the handler is a step: the findById of every validated item, the     *)
(* counter read and write of the receipt hook, the insert of the sale, and *)
(* the findById and save of every stock update.                            *)

Sellers == {1, 2}

RaceSaleInputs == { << a >> : a \in SaleItemInputs }

SellerIdle(items) ==
    [ items |-> items, idx |-> 1, snap |-> NoDoc, doc |-> NoDoc, ret |-> -1,
      sale |-> 0, previousStock |-> 0 ]

RaceFrame == << today, orders, mpesa, clock, resp, budget >>

\* One iteration of the validation loop.
SaleValidate(h) ==
    /\ pc[h] = "validate"
    /\ LET item == loc[h].items[loc[h].idx]
       IN  IF InsufficientStock(stock, item)
           THEN /\ pc' = [pc EXCEPT ![h] = "rejected"]
                /\ loc' = loc
           ELSE IF loc[h].idx < Len(loc[h].items)
           THEN /\ pc' = pc
                /\ loc' = [loc EXCEPT ![h].idx = @ + 1]
           ELSE /\ pc' = [pc EXCEPT ![h] = "seq_find"]
                /\ loc' = [loc EXCEPT ![h].idx = 1]
    /\ UNCHANGED << stock, stockMovements, sales, history, counters >>
    /\ UNCHANGED RaceFrame

\* sale.save(), receipt hook: Counter.findById
SaleSeqFind(h) ==
    /\ pc[h] = "seq_find"
    /\ LET snap == counters["receipt"]
       IN  IF snap = NoDoc
           THEN /\ pc' = [pc EXCEPT ![h] = "seq_create"]
                /\ loc' = [loc EXCEPT ![h].snap = snap]
           ELSE /\ pc' = [pc EXCEPT ![h] = "seq_save"]
                /\ loc' = [loc EXCEPT ![h].snap = snap,
                                      ![h].doc = NextCounter(snap, today)]
    /\ UNCHANGED << stock, stockMovements, sales, history, counters >>
    /\ UNCHANGED RaceFrame

\* receipt hook: Counter.create
SaleSeqCreate(h) ==
    /\ pc[h] = "seq_create"
    /\ IF counters["receipt"] = NoDoc
       THEN /\ counters' = [counters EXCEPT !["receipt"] = NewCounter("never", today)]
            /\ pc' = [pc EXCEPT ![h] = "insert"]
            /\ loc' = [loc EXCEPT ![h].ret = NewCounter("never", today).seq]
       ELSE /\ pc' = [pc EXCEPT ![h] = "failed"]
            /\ UNCHANGED << counters, loc >>
    /\ UNCHANGED << stock, stockMovements, sales, history >>
    /\ UNCHANGED RaceFrame

\* receipt hook: counter.save
SaleSeqSave(h) ==
    /\ pc[h] = "seq_save"
    /\ counters' = [counters EXCEPT !["receipt"] =
                        SaveModified(@, loc[h].snap, loc[h].doc)]
    /\ pc' = [pc EXCEPT ![h] = "insert"]
    /\ loc' = [loc EXCEPT ![h].ret = loc[h].doc.seq]
    /\ UNCHANGED << stock, stockMovements, sales, history >>
    /\ UNCHANGED RaceFrame

\* sale.save(): the insert, refused when the receipt number is taken.
SaleInsert(h) ==
    /\ pc[h] = "insert"
    /\ LET sale == NewSale(loc[h].items, ReceiptNumber(today, loc[h].ret))
       IN  IF ReceiptTaken(sales, sale.receiptNumber)
           THEN /\ pc' = [pc EXCEPT ![h] = "failed"]
                /\ UNCHANGED << sales, history, loc >>
           ELSE /\ sales' = Append(sales, sale)
                /\ history' = [history EXCEPT !.stockBeforeSale = Append(@, stock)]
                /\ pc' = [pc EXCEPT ![h] = "stock_find"]
                /\ loc' = [loc EXCEPT ![h].sale = Len(sales) + 1, ![h].idx = 1]
    /\ UNCHANGED << stock, stockMovements, counters >>
    /\ UNCHANGED RaceFrame

SaleAdvance(h) ==
    IF loc[h].idx < Len(loc[h].items)
    THEN /\ pc' = [pc EXCEPT ![h] = "stock_find"]
         /\ loc' = [loc EXCEPT ![h].idx = @ + 1]
    ELSE /\ pc' = [pc EXCEPT ![h] = "done"]
         /\ loc' = loc

\* Stock loop: Product.findById
SaleStockFind(h) ==
    /\ pc[h] = "stock_find"
    /\ LET p == loc[h].items[loc[h].idx].product
       IN  IF trackInventory[p]
           THEN /\ pc' = [pc EXCEPT ![h] = "stock_save"]
                /\ loc' = [loc EXCEPT ![h].previousStock = stock[p]]
           ELSE SaleAdvance(h)
    /\ UNCHANGED << stock, stockMovements, sales, history, counters >>
    /\ UNCHANGED RaceFrame

\* Stock loop: product.updateStock on the document read before.
SaleStockSave(h) ==
    /\ pc[h] = "stock_save"
    /\ LET item == loc[h].items[loc[h].idx]
           r == updateStock(Inv, item.product, loc[h].previousStock,
                            item.quantity, "sale",
                            sales[loc[h].sale].receiptNumber, "none")
       IN  /\ stock' = r.stock
           /\ stockMovements' = r.mov
           /\ IF r.ok THEN SaleAdvance(h)
              ELSE /\ pc' = [pc EXCEPT ![h] = "failed"]
                   /\ loc' = loc
    /\ UNCHANGED << sales, history, counters >>
    /\ UNCHANGED RaceFrame

InitSaleRace ==
    /\ stock = InitialStock
    /\ stockMovements = [p \in Products |-> << >>]
    /\ sales = << >>
    /\ history = NoHistory
    /\ counters = NoCounters
    /\ today = Day0
    /\ orders = << >>
    /\ mpesa = << >>
    /\ clock = 0
    /\ pc = [h \in Sellers |-> "validate"]
    /\ loc \in [Sellers -> { SellerIdle(items) : items \in RaceSaleInputs }]
    /\ resp = NoResponse
    /\ budget = NoBudget

NextSaleRace ==
    \/ \E h \in Sellers : SaleValidate(h)
    \/ \E h \in Sellers : SaleSeqFind(h)
    \/ \E h \in Sellers : SaleSeqCreate(h)
    \/ \E h \in Sellers : SaleSeqSave(h)
    \/ \E h \in Sellers : SaleInsert(h)
    \/ \E h \in Sellers : SaleStockFind(h)
    \/ \E h \in Sellers : SaleStockSave(h)

SpecSaleRace == InitSaleRace /\ [][NextSaleRace]_vars

RequestedQuantity(h, p) == SumQuantity(loc[h].items, p)

\* C5: two concurrent sales of a tracked product that refuses backorders
\* both complete only if the initial stock covered the sum of their
\* quantities.
C5_NoDoubleDeduct ==
    \A p \in Products :
        ( /\ trackInventory[p] /\ ~allowBackorder[p]
          /\ \A h \in Sellers : pc[h] = "done" /\ RequestedQuantity(h, p) > 0 )
        => InitialStock[p] >= RequestedQuantity(1, p) + RequestedQuantity(2, p)

-----------------------------------------------------------------------------
(* M-Pesa reconciliation (SpecMpesa): checkMpesaPaymentStatus and          *)
(* mpesaCallback, split at their awaits (findOne, stkQuery, save), run by  *)
(* NumHandlers request slots against one initiated transaction.            *)

NumHandlers == 2
MaxPolls == 2
MaxCallbacks == 2
MaxTicks == 2

RateLimitMs == 5000
TickMs == RateLimitMs \div 2

Handlers == 1..NumHandlers

TxIds == {"ws_1"}

UnknownTxId == "ws_x"

Terminal == {"success", "failed", "cancelled"}

NoReceipt == ""

NoTime == -1

\* The record initiateMpesaPayment stores.
NewTransaction ==
    [ status |-> "pending", mpesaReceiptNumber |-> NoReceipt, resultCode |-> "",
      lastQueryAt |-> NoTime, retryCount |-> 0, sale |-> 0 ]

\* What stkQuery can return: a result code, or no result (the request threw
\* or the gateway answered with an error).
QueryFailed == "error"

QueryResults == {"0", "1032", "1", QueryFailed}

PollStatus(resultCode) ==
    IF resultCode = "0" THEN "success"
    ELSE IF resultCode = "1032" THEN "cancelled"
    ELSE "failed"

\* The callbacks the gateway can send: ResultCode, and for 0 a metadata
\* array that may or may not hold an MpesaReceiptNumber item.
CallbackBodies ==
    { [ ResultCode |-> 0, receipt |-> "R1" ],
      [ ResultCode |-> 0, receipt |-> NoReceipt ],
      [ ResultCode |-> 1032, receipt |-> NoReceipt ],
      [ ResultCode |-> 1, receipt |-> NoReceipt ] }

CodeString(n) ==
    CASE n = 0 -> "0" [] n = 1032 -> "1032" [] OTHER -> "1"

CallbackStatus(ResultCode) == IF ResultCode = 0 THEN "success" ELSE "failed"

CallbackDoc(snap, body) ==
    [snap EXCEPT !.resultCode = CodeString(body.ResultCode),
                 !.status = CallbackStatus(body.ResultCode),
                 !.mpesaReceiptNumber =
                     IF body.ResultCode = 0 /\ body.receipt # NoReceipt
                     THEN body.receipt ELSE @]

HandlerIdle == [ tx |-> "ws_1", snap |-> NoDoc, doc |-> NoDoc, now |-> 0 ]

MpesaFrame == << stock, stockMovements, sales, history, counters, today, orders >>

\* checkMpesaPaymentStatus up to its first await after findOne: the cached
\* answers, or on to stkQuery.
PollFind(h, t) ==
    /\ pc[h] = "idle"
    /\ budget["poll"] > 0
    /\ budget' = Spend("poll")
    /\ LET snap == mpesa[t]
       IN  IF snap.status = "success" \/ snap.status = "failed"
           THEN /\ resp' = Response("checkStatus", h, snap.status, 200)
                /\ UNCHANGED << pc, loc >>
           ELSE IF snap.lastQueryAt # NoTime /\ clock - snap.lastQueryAt < RateLimitMs
           THEN /\ resp' = Response("checkStatus", h, snap.status, 200)
                /\ UNCHANGED << pc, loc >>
           ELSE /\ pc' = [pc EXCEPT ![h] = "poll_query"]
                /\ loc' = [loc EXCEPT ![h] = [ tx |-> t, snap |-> snap,
                                               doc |-> snap, now |-> clock ]]
                /\ resp' = resp
    /\ history' = IF pc'[h] = "poll_query"
                  THEN [history EXCEPT !.queries =
                           Append(@, [ tx |-> t, at |-> clock ])]
                  ELSE history
    /\ UNCHANGED << mpesa, clock >>
    /\ UNCHANGED << stock, stockMovements, sales, counters, today, orders >>

\* await mpesaService.stkQuery(...) returns.
PollQuery(h, result) ==
    /\ pc[h] = "poll_query"
    /\ IF result = QueryFailed
       THEN /\ pc' = [pc EXCEPT ![h] = "idle"]
            /\ resp' = Response("checkStatus", h, loc[h].snap.status, 200)
            /\ loc' = [loc EXCEPT ![h] = HandlerIdle]
       ELSE /\ pc' = [pc EXCEPT ![h] = "poll_save"]
            /\ loc' = [loc EXCEPT ![h].doc =
                          [loc[h].snap EXCEPT
                              !.status = PollStatus(result),
                              !.resultCode = result,
                              !.lastQueryAt = loc[h].now,
                              !.retryCount = @ + 1]]
            /\ resp' = resp
    /\ UNCHANGED << mpesa, clock, budget >>
    /\ UNCHANGED MpesaFrame

\* await transaction.save() of the poll path, and the response.
PollSave(h) ==
    /\ pc[h] = "poll_save"
    /\ mpesa' = [mpesa EXCEPT ![loc[h].tx] = SaveModified(@, loc[h].snap, loc[h].doc)]
    /\ resp' = Response("checkStatus", h, loc[h].doc.status, 200)
    /\ pc' = [pc EXCEPT ![h] = "idle"]
    /\ loc' = [loc EXCEPT ![h] = HandlerIdle]
    /\ UNCHANGED << clock, budget >>
    /\ UNCHANGED MpesaFrame

\* mpesaCallback up to its save: findOne and the in-memory update.
CallbackFind(h, id, body) ==
    /\ pc[h] = "idle"
    /\ budget["callback"] > 0
    /\ budget' = Spend("callback")
    /\ IF id \notin TxIds
       THEN /\ resp' = Response("mpesaCallback", h, "Transaction not found", 200)
            /\ UNCHANGED << pc, loc >>
       ELSE /\ pc' = [pc EXCEPT ![h] = "cb_save"]
            /\ loc' = [loc EXCEPT ![h] = [ tx |-> id, snap |-> mpesa[id],
                                           doc |-> CallbackDoc(mpesa[id], body),
                                           now |-> clock ]]
            /\ resp' = resp
    /\ UNCHANGED << mpesa, clock >>
    /\ UNCHANGED MpesaFrame

\* await transaction.save() of the callback path, and the acknowledgement.
CallbackSave(h) ==
    /\ pc[h] = "cb_save"
    /\ mpesa' = [mpesa EXCEPT ![loc[h].tx] = SaveModified(@, loc[h].snap, loc[h].doc)]
    /\ resp' = Response("mpesaCallback", h, "Callback processed successfully", 200)
    /\ pc' = [pc EXCEPT ![h] = "idle"]
    /\ loc' = [loc EXCEPT ![h] = HandlerIdle]
    /\ UNCHANGED << clock, budget >>
    /\ UNCHANGED MpesaFrame

\* The save rejects (the store is unreachable or refuses the write): the
\* catch of checkMpesaPaymentStatus answers with the in-memory status.
PollSaveFails(h) ==
    /\ pc[h] = "poll_save"
    /\ resp' = Response("checkStatus", h, loc[h].doc.status, 200)
    /\ pc' = [pc EXCEPT ![h] = "idle"]
    /\ loc' = [loc EXCEPT ![h] = HandlerIdle]
    /\ UNCHANGED << mpesa, clock, budget >>
    /\ UNCHANGED MpesaFrame

\* The save rejects: the catch of mpesaCallback answers.
CallbackSaveFails(h) ==
    /\ pc[h] = "cb_save"
    /\ resp' = Response("mpesaCallback", h, "Callback processing failed", 500)
    /\ pc' = [pc EXCEPT ![h] = "idle"]
    /\ loc' = [loc EXCEPT ![h] = HandlerIdle]
    /\ UNCHANGED << mpesa, clock, budget >>
    /\ UNCHANGED MpesaFrame

\* A callback whose body has no Body.stkCallback: the destructuring throws
\* inside the try and the catch answers.
CallbackMalformed(h) ==
    /\ pc[h] = "idle"
    /\ budget["callback"] > 0
    /\ budget' = Spend("callback")
    /\ resp' = Response("mpesaCallback", h, "Callback processing failed", 500)
    /\ UNCHANGED << mpesa, clock, pc, loc >>
    /\ UNCHANGED MpesaFrame

\* Time passes.
Tick ==
    /\ budget["tick"] > 0
    /\ budget' = Spend("tick")
    /\ clock' = clock + TickMs
    /\ UNCHANGED << mpesa, pc, loc, resp >>
    /\ UNCHANGED MpesaFrame

InitMpesa ==
    /\ stock = InitialStock
    /\ stockMovements = [p \in Products |-> << >>]
    /\ sales = << >>
    /\ history = NoHistory
    /\ counters = NoCounters
    /\ today = Day0
    /\ orders = << >>
    /\ mpesa = [t \in TxIds |-> NewTransaction]
    /\ clock = 0
    /\ pc = [h \in Handlers |-> "idle"]
    /\ loc = [h \in Handlers |-> HandlerIdle]
    /\ resp = NoResponse
    /\ budget = [NoBudget EXCEPT !["poll"] = MaxPolls, !["callback"] = MaxCallbacks,
                                 !["tick"] = MaxTicks]

NextMpesa ==
    \/ \E h \in Handlers, t \in TxIds : PollFind(h, t)
    \/ \E h \in Handlers, result \in QueryResults : PollQuery(h, result)
    \/ \E h \in Handlers : PollSave(h)
    \/ \E h \in Handlers, id \in TxIds \cup {UnknownTxId}, body \in CallbackBodies :
          CallbackFind(h, id, body)
    \/ \E h \in Handlers : CallbackSave(h)
    \/ \E h \in Handlers : PollSaveFails(h)
    \/ \E h \in Handlers : CallbackSaveFails(h)
    \/ \E h \in Handlers : CallbackMalformed(h)
    \/ Tick

SpecMpesa == InitMpesa /\ [][NextMpesa]_vars

Saves(h) == pc[h] \in {"poll_save", "cb_save"} /\ pc'[h] = "idle"

\* C2: a poll or callback that starts after the transaction has reached
\* success, failed or cancelled changes neither its status nor its
\* mpesaReceiptNumber.
C2_TerminalIsFinal ==
    [][ \A h \in Handlers :
          ( Saves(h) /\ loc[h].snap.status \in Terminal )
          => /\ mpesa'[loc[h].tx].status = mpesa[loc[h].tx].status
             /\ mpesa'[loc[h].tx].mpesaReceiptNumber
                    = mpesa[loc[h].tx].mpesaReceiptNumber
      ]_vars

\* C6: a poll or callback that loaded the transaction while it was pending
\* and writes after a concurrent handler made it terminal does not change
\* the status: the first transition wins.
C6_StaleWriteIgnored ==
    [][ \A h \in Handlers :
          ( /\ Saves(h)
            /\ loc[h].snap.status = "pending"
            /\ mpesa[loc[h].tx].status \in Terminal )
          => mpesa'[loc[h].tx].status = mpesa[loc[h].tx].status
      ]_vars

-----------------------------------------------------------------------------
(* Orders (SpecOrder): createOrder, updateOrderStatus, assignOrder and     *)
(* cancelOrder, one request at a time, with the stock endpoint changing    *)
(* stock between them.                                                     *)

MaxOrderRequests == 6
MaxStockRequests == 1

OrderSlots == {1}

Statuses ==
    { "pending", "confirmed", "processing", "ready", "out_for_delivery",
      "delivered", "cancelled", "failed" }

OrderItemInputs == [ product : Products, quantity : Quantities ]

Requester == "u1"

DeliveryPerson == "rider"

validTransitions_PendingDelivered ==
    [ pending |-> {"confirmed", "cancelled", "delivered"},
      confirmed |-> {"processing", "cancelled"},
      processing |-> {"ready", "cancelled"},
      ready |-> {"out_for_delivery", "delivered", "cancelled"},
      out_for_delivery |-> {"delivered", "failed"},
      delivered |-> {},
      cancelled |-> {},
      failed |-> {"out_for_delivery", "cancelled"} ]

validTransitions ==
    [ pending |-> {"confirmed", "cancelled"},
      confirmed |-> {"processing", "cancelled"},
      processing |-> {"ready", "cancelled"},
      ready |-> {"out_for_delivery", "delivered", "cancelled"},
      out_for_delivery |-> {"delivered", "failed"},
      delivered |-> {},
      cancelled |-> {},
      failed |-> {"out_for_delivery", "cancelled"} ]

\* findByIdAndUpdate("order", {$inc: {seq: 1}}, {new: true, upsert: true})
NextOrderCounter(counter, now) ==
    IF counter = NoDoc
    THEN [ seq |-> 1, resetPeriod |-> "never", lastReset |-> now ]
    ELSE [counter EXCEPT !.seq = @ + 1]

OrderNumber(now, sequence) == [ y |-> now.y, m |-> now.m, seq |-> sequence ]

NewOrder(items, orderNumber) ==
    [ orderNumber |-> orderNumber, items |-> items, status |-> "pending",
      statusHistory |-> << >>, assignedTo |-> Requester ]

HistoryEntry(status, updatedBy) == [ status |-> status, updatedBy |-> updatedBy ]

\* The pre-save hook: one more entry when status was modified.
StatusHook(order) ==
    [order EXCEPT !.statusHistory =
        Append(@, HistoryEntry(order.status, order.assignedTo))]

\* Order.updateStatus: sets the status, pushes an entry, saves.
updateStatus(order, newStatus, userId) ==
    StatusHook([order EXCEPT !.status = newStatus,
                             !.statusHistory = Append(@, HistoryEntry(newStatus, userId))])

\* Order.assignToDeliveryPerson.
assignToDeliveryPerson(order, userId) ==
    StatusHook([order EXCEPT !.assignedTo = userId,
                             !.status = "out_for_delivery",
                             !.statusHistory =
                                 Append(@, HistoryEntry("out_for_delivery", userId))])

\* updateOrderStatus's delivery loop.
DeliverItems(inv, order) ==
    DeductItems(inv, order.items, order.orderNumber, "Order delivered")

OrderFrame == << sales, history, today, mpesa, clock, pc, loc >>

CreateOrder(items) ==
    /\ budget["order"] > 0
    /\ Len(orders) + 1 \in OrderSlots
    /\ budget' = Spend("order")
    /\ IF ~StockAvailable(stock, items)
       THEN /\ resp' = Response("createOrder", 0, "", 400)
            /\ UNCHANGED << orders, counters >>
       ELSE LET counter == NextOrderCounter(counters["order"], today)
            IN  /\ counters' = [counters EXCEPT !["order"] = counter]
                /\ orders' = Append(orders, NewOrder(items, OrderNumber(today, counter.seq)))
                /\ resp' = Response("createOrder", Len(orders) + 1, "pending", 201)
    /\ UNCHANGED << stock, stockMovements >>
    /\ UNCHANGED OrderFrame

\* A request the transition table accepts changes the order (and, for
\* delivered, the stock) and then fails on the notification settings lookup.
UpdateOrderStatus(o, status) ==
    /\ budget["order"] > 0
    /\ budget' = Spend("order")
    /\ IF status \notin validTransitions[orders[o].status]
       THEN /\ resp' = Response("updateOrderStatus", o, status, 400)
            /\ UNCHANGED << orders, stock, stockMovements >>
       ELSE LET r == IF status = "delivered" THEN DeliverItems(Inv, orders[o])
                     ELSE [ ok |-> TRUE, stock |-> stock, mov |-> stockMovements ]
            IN  /\ orders' = [orders EXCEPT ![o] = updateStatus(@, status, Requester)]
                /\ stock' = r.stock
                /\ stockMovements' = r.mov
                /\ resp' = Response("updateOrderStatus", o, status, 500)
    /\ UNCHANGED counters
    /\ UNCHANGED OrderFrame

AssignOrder(o) ==
    /\ budget["order"] > 0
    /\ budget' = Spend("order")
    /\ IF orders[o].status # "ready"
       THEN /\ resp' = Response("assignOrder", o, "out_for_delivery", 400)
            /\ orders' = orders
       ELSE /\ orders' = [orders EXCEPT ![o] = assignToDeliveryPerson(@, DeliveryPerson)]
            /\ resp' = Response("assignOrder", o, "out_for_delivery", 200)
    /\ UNCHANGED << stock, stockMovements, counters >>
    /\ UNCHANGED OrderFrame

CancelOrder(o) ==
    /\ budget["order"] > 0
    /\ budget' = Spend("order")
    /\ IF orders[o].status \in {"delivered", "cancelled"}
       THEN /\ resp' = Response("cancelOrder", o, "cancelled", 400)
            /\ orders' = orders
       ELSE /\ orders' = [orders EXCEPT ![o] = StatusHook([@ EXCEPT !.status = "cancelled"])]
            /\ resp' = Response("cancelOrder", o, "cancelled", 200)
    /\ UNCHANGED << stock, stockMovements, counters >>
    /\ UNCHANGED OrderFrame

InitOrder ==
    /\ stock = InitialStock
    /\ stockMovements = [p \in Products |-> << >>]
    /\ sales = << >>
    /\ history = NoHistory
    /\ counters = NoCounters
    /\ today = Day0
    /\ orders = << >>
    /\ mpesa = << >>
    /\ clock = 0
    /\ pc = << >>
    /\ loc = << >>
    /\ resp = NoResponse
    /\ budget = [NoBudget EXCEPT !["order"] = MaxOrderRequests,
                                 !["request"] = MaxStockRequests]

NextOrder ==
    \/ \E items \in ItemLists(OrderItemInputs) : CreateOrder(items)
    \/ \E o \in 1..Len(orders), status \in Statuses : UpdateOrderStatus(o, status)
    \/ \E o \in 1..Len(orders) : AssignOrder(o)
    \/ \E o \in 1..Len(orders) : CancelOrder(o)
    \/ \E p \in Products, a \in AdjustRequests :
          AdjustStock(p, a.quantity, a.type)

SpecOrder == InitOrder /\ [][NextOrder]_vars

\* The transition table the orders are specified to follow.
TransitionTable ==
    [ pending |-> {"confirmed", "cancelled"},
      confirmed |-> {"processing", "cancelled"},
      processing |-> {"ready", "cancelled"},
      ready |-> {"out_for_delivery", "delivered", "cancelled"},
      out_for_delivery |-> {"delivered", "failed"},
      failed |-> {"out_for_delivery", "cancelled"},
      delivered |-> {},
      cancelled |-> {} ]

OrderOps == {"updateOrderStatus", "assignOrder", "cancelOrder"}

TrackedProducts == { p \in Products : trackInventory[p] }

C10_InvalidTransitionRejected ==
    [][ ( /\ resp'.op = "updateOrderStatus"
          /\ resp'.arg \notin TransitionTable[orders[resp'.id].status] )
        => /\ resp'.code = 400
           /\ orders' = orders
           /\ stock' = stock
           /\ stockMovements' = stockMovements
      ]_vars

\* A pending order with an untouched history has just refused to jump to
\* delivered.
C10_Witness ==
    /\ resp = Response("updateOrderStatus", 1, "delivered", 400)
    /\ Len(orders) = 1
    /\ orders[1].status = "pending"
    /\ orders[1].statusHistory = << >>
    /\ stock = InitialStock

-----------------------------------------------------------------------------
(* Further properties of the sale handlers (Spec) *)

\* C11: a sale whose status is voided or refunded keeps that status through
\* every later void and refund call.
C11_VoidedRefundedFinal ==
    [][ \A s \in 1..Len(sales) :
          sales[s].status \in {"voided", "refunded"}
          => sales'[s].status = sales[s].status
      ]_vars

RECURSIVE RefundedAmount(_, _)
RefundedAmount(log, s) ==
    IF log = << >> THEN 0
    ELSE (IF Head(log).sale = s THEN SumAmounts(Head(log).items) ELSE 0)
             + RefundedAmount(Tail(log), s)

C13_FailedRefundAppliesNothing ==
    [][ ( /\ resp'.op = "refundSale" /\ resp'.code = 400
          /\ sales[resp'.id].status # "voided" )
        => /\ stock' = stock
           /\ stockMovements' = stockMovements
           /\ sales' = sales
      ]_vars

\* C14: a void or refund call on a voided sale fails and changes neither
\* the sale (status, voidInfo, refundInfo) nor any stock or movement history.
C14_VoidedSaleUntouched ==
    [][ ( /\ resp'.op \in {"voidSale", "refundSale"}
          /\ sales[resp'.id].status = "voided" )
        => /\ resp'.code = 400
           /\ sales' = sales
           /\ stock' = stock
           /\ stockMovements' = stockMovements
      ]_vars

\* A sale was created and voided, and a further call on it has just been
\* refused; its stock was restored exactly once.
C14_Witness ==
    /\ resp.op \in {"voidSale", "refundSale"}
    /\ resp.code = 400
    /\ sales[resp.id].status = "voided"
    /\ budget["request"] = MaxRequests - 3
    /\ \A p \in Products :
          trackInventory[p] => stock[p] = history.stockBeforeSale[resp.id][p]

\* C15: a sale keeps the receiptNumber it was created with; no two sales
\* share a receiptNumber; the sequence parts of successively created sales
\* rise by exactly one.
C15_ReceiptNumbers ==
    [][ /\ \A s \in 1..Len(sales) :
              sales'[s].receiptNumber = sales[s].receiptNumber
        /\ \A i, j \in 1..Len(sales') :
              i # j => sales'[i].receiptNumber # sales'[j].receiptNumber
        /\ \A i \in 1..(Len(sales') - 1) :
              sales'[i + 1].receiptNumber.seq = sales'[i].receiptNumber.seq + 1
      ]_vars

\* Two sales exist, the first has since been voided or refunded, and their
\* receipt numbers are distinct and consecutive.
C15_Witness ==
    /\ Len(sales) = 2
    /\ sales[1].status # "completed"
    /\ sales[2].receiptNumber.seq = sales[1].receiptNumber.seq + 1

-----------------------------------------------------------------------------
(* Further properties of the M-Pesa handlers (SpecMpesa) *)

\* C16: every answer of the callback handler is HTTP 200, whatever the
\* callback was: unknown id, malformed body, late, duplicate, or one whose
\* save failed.
C16_CallbackAlwaysAcknowledged ==
    resp.op = "mpesaCallback" => resp.code = 200

\* C17: a transaction that carries an mpesaReceiptNumber has status success,
\* and no write of the poll path changes the receipt number.
C17_ReceiptImpliesSuccess ==
    [][ \A t \in TxIds :
          /\ mpesa'[t].mpesaReceiptNumber # NoReceipt => mpesa'[t].status = "success"
          /\ \A h \in Handlers :
                ( pc[h] = "poll_save" /\ pc'[h] = "idle" /\ loc[h].tx = t )
                => mpesa'[t].mpesaReceiptNumber = mpesa[t].mpesaReceiptNumber
      ]_vars

-----------------------------------------------------------------------------
(* Sales paid by M-Pesa (SpecPaidSale): createSale with a payment, run to  *)
(* completion, between the callbacks that settle the transaction.          *)

MaxPaidSales == 2

PaymentInputs ==
    { Payment("cash", ""), Payment("mpesa", ""),
      Payment("mpesa", "R1"), Payment("mpesa", "R9") }

\* MpesaTransaction.findOne({mpesaReceiptNumber, status: "success"})
FindSuccessful(txs, transactionId) ==
    { t \in DOMAIN txs : /\ txs[t].mpesaReceiptNumber = transactionId
                         /\ txs[t].status = "success" }

\* createSale.  With a transactionId that matches a successful transaction
\* the handler reads sale._id above the declaration of sale, which throws:
\* nothing is linked and nothing is created.
CreateSalePaid(items, payment) ==
    /\ budget["request"] > 0
    /\ budget' = Spend("request")
    /\ UNCHANGED << today, orders, mpesa, clock, pc, loc >>
    /\ IF ~StockAvailable(stock, items)
       THEN /\ resp' = Response("createSale", 0, payment.transactionId, 400)
            /\ UNCHANGED << stock, stockMovements, sales, history, counters >>
       ELSE IF /\ payment.method = "mpesa" /\ payment.transactionId # ""
               /\ FindSuccessful(mpesa, payment.transactionId) = {}
       THEN /\ resp' = Response("createSale", 0, payment.transactionId, 400)
            /\ UNCHANGED << stock, stockMovements, sales, history, counters >>
       ELSE IF payment.method = "mpesa" /\ payment.transactionId # ""
       THEN /\ resp' = Response("createSale", 0, payment.transactionId, 500)
            /\ UNCHANGED << stock, stockMovements, sales, history, counters >>
       ELSE LET doc == getNextSequence(counters, "receipt", "never", today)
                sale == [NewSale(items, ReceiptNumber(today, doc.seq))
                            EXCEPT !.payment = payment]
                r == DeductItems(Inv, sale.items, sale.receiptNumber, "none")
            IN  /\ counters' = [counters EXCEPT !["receipt"] = doc]
                /\ IF ReceiptTaken(sales, sale.receiptNumber)
                   THEN /\ resp' = Response("createSale", 0, payment.transactionId, 500)
                        /\ UNCHANGED << stock, stockMovements, sales, history >>
                   ELSE /\ sales' = Append(sales, sale)
                        /\ history' = [history EXCEPT !.stockBeforeSale = Append(@, stock)]
                        /\ stock' = r.stock
                        /\ stockMovements' = r.mov
                        /\ resp' = Response("createSale", Len(sales) + 1,
                                            payment.transactionId,
                                            IF r.ok THEN 201 ELSE 500)

InitPaidSale ==
    /\ stock = InitialStock
    /\ stockMovements = [p \in Products |-> << >>]
    /\ sales = << >>
    /\ history = NoHistory
    /\ counters = NoCounters
    /\ today = Day0
    /\ orders = << >>
    /\ mpesa = [t \in TxIds |-> NewTransaction]
    /\ clock = 0
    /\ pc = [h \in Handlers |-> "idle"]
    /\ loc = [h \in Handlers |-> HandlerIdle]
    /\ resp = NoResponse
    /\ budget = [NoBudget EXCEPT !["request"] = MaxPaidSales,
                                 !["callback"] = MaxCallbacks]

NextPaidSale ==
    \/ \E h \in Handlers, id \in TxIds, body \in CallbackBodies :
          CallbackFind(h, id, body)
    \/ \E h \in Handlers : CallbackSave(h)
    \/ \E items \in RaceSaleInputs, payment \in PaymentInputs :
          CreateSalePaid(items, payment)

SpecPaidSale == InitPaidSale /\ [][NextPaidSale]_vars

\* C19: every persisted sale with payment method mpesa and payment status
\* paid has a MpesaTransaction in status success whose receipt number is the
\* sale's transactionId.
C19_PaidMpesaSaleHasTransaction ==
    \A s \in 1..Len(sales) :
        ( sales[s].payment.method = "mpesa" /\ sales[s].payment.status = "paid" )
        => \E t \in TxIds :
              /\ mpesa[t].status = "success"
              /\ mpesa[t].mpesaReceiptNumber = sales[s].payment.transactionId

-----------------------------------------------------------------------------
(* Further properties of the order handlers (SpecOrder) *)

-----------------------------------------------------------------------------
(* Stock put back and taken out per sale (Spec) *)

\* The quantity the movements of one type with one reference add up to.
RECURSIVE MovedQuantity(_, _, _)
MovedQuantity(movs, type, reference) ==
    IF movs = << >> THEN 0
    ELSE (IF Head(movs).type = type /\ Head(movs).reference = reference
          THEN Head(movs).quantity ELSE 0)
             + MovedQuantity(Tail(movs), type, reference)

\* C21: for every sale and product, the return movements that voids and
\* refunds of the sale recorded add up to at most what the sale's own
\* movements took out of stock.
C21_RestoredAtMostTaken ==
    \A s \in 1..Len(sales) : \A p \in Products :
        MovedQuantity(stockMovements[p], "return", sales[s].receiptNumber)
            <= MovedQuantity(stockMovements[p], "sale", sales[s].receiptNumber)

\* C22: a createSale that persists a sale has decremented every tracked
\* product by the quantity sold of it, and a createSale that fails leaves
\* no sale record and no stock change behind.
C22_CreateSaleAllOrNothing ==
    [][ resp'.op = "createSale"
        => IF resp'.code = 201
           THEN /\ Len(sales') = Len(sales) + 1
                /\ \A p \in Products :
                      stock'[p] = stock[p] -
                          (IF trackInventory[p]
                           THEN SumQuantity(sales'[Len(sales')].items, p) ELSE 0)
           ELSE /\ sales' = sales
                /\ stock' = stock
                /\ stockMovements' = stockMovements
      ]_vars

\* C30: a void or refund leaves the stock of every product that does not
\* track inventory, and that createSale therefore never decremented, as it
\* was.
C30_UntrackedStockUntouched ==
    [][ resp'.op \in {"voidSale", "refundSale"}
        => \A p \in Products : ~trackInventory[p] => stock'[p] = stock[p]
      ]_vars

-----------------------------------------------------------------------------
(* Delivered orders and their stock (SpecOrder) *)

-----------------------------------------------------------------------------
(* The movement history as a ledger of the stock *)

\* What the movements add to the stock.
RECURSIVE SignedSum(_)
SignedSum(movs) ==
    IF movs = << >> THEN 0
    ELSE (IF Head(movs).type \in DecreasingTypes
          THEN 0 - Head(movs).quantity ELSE Head(movs).quantity)
             + SignedSum(Tail(movs))

\* Every movement starts from the stock the movement before it left.
Chained(movs) ==
    \A i \in 2..Len(movs) : movs[i].previousStock = movs[i - 1].newStock

\* C23: under every interleaving of the stock updates of concurrent sales
\* no update is lost: the stock is the initial stock plus the signed
\* quantities of the movements recorded, and every movement's previousStock
\* is the newStock of the movement before it.
C23_NoLostUpdate ==
    \A p \in Products :
        /\ stock[p] = InitialStock[p] + SignedSum(stockMovements[p])
        /\ Chained(stockMovements[p])

-----------------------------------------------------------------------------
(* The stock endpoint on its own (SpecStock): every movement type, with     *)
(* quantities below and above the stock on hand and a negative adjustment.  *)

MaxStockUpdates == 3

UpdateStockRequests ==
    [ type : MovementTypes, quantity : {1, 3} ]
        \cup { [ type |-> "adjustment", quantity |-> -1 ] }

InitStock ==
    /\ stock = InitialStock
    /\ stockMovements = [p \in Products |-> << >>]
    /\ sales = << >>
    /\ history = NoHistory
    /\ counters = NoCounters
    /\ today = Day0
    /\ orders = << >>
    /\ mpesa = << >>
    /\ clock = 0
    /\ pc = << >>
    /\ loc = << >>
    /\ resp = NoResponse
    /\ budget = [NoBudget EXCEPT !["request"] = MaxStockUpdates]

NextStock ==
    \E p \in Products, a \in UpdateStockRequests :
        AdjustStock(p, a.quantity, a.type)

SpecStock == InitStock /\ [][NextStock]_vars

\* C27: a successful updateStock appends exactly one movement, whose
\* previousStock is the stock before the call and whose newStock is the
\* stock after it; a failed updateStock appends nothing and leaves the stock
\* as it was; so the stock of a product with movements is the newStock of
\* its latest movement.
C27_MovementPerUpdate ==
    /\ [] \A p \in Products :
            stockMovements[p] # << >>
            => stock[p] = stockMovements[p][Len(stockMovements[p])].newStock
    /\ [][ resp'.op = "updateStock"
           => \A p \in Products :
                 IF p = resp'.arg /\ resp'.code = 200
                 THEN /\ Len(stockMovements'[p]) = Len(stockMovements[p]) + 1
                      /\ SubSeq(stockMovements'[p], 1, Len(stockMovements[p]))
                             = stockMovements[p]
                      /\ stockMovements'[p][Len(stockMovements'[p])].previousStock
                             = stock[p]
                      /\ stockMovements'[p][Len(stockMovements'[p])].newStock
                             = stock'[p]
                 ELSE /\ stockMovements'[p] = stockMovements[p]
                      /\ stock'[p] = stock[p]
         ]_vars

\* A refused update of a product that already has movements.
C27_Witness ==
    /\ resp.op = "updateStock"
    /\ resp.code = 400
    /\ stockMovements[resp.arg] # << >>

-----------------------------------------------------------------------------
(* The rate limit of the poll path (SpecMpesa) *)

\* C28: any two stkQuery calls the poll path makes for one transaction are
\* at least RateLimitMs apart, whatever the earlier call returned.
C28_QueriesRateLimited ==
    \A i, j \in 1..Len(history.queries) :
        ( i < j /\ history.queries[i].tx = history.queries[j].tx )
        => history.queries[j].at - history.queries[i].at >= RateLimitMs

-----------------------------------------------------------------------------
(* Counter.getNextSequence called one call at a time (SpecSequence), on     *)
(* keys that do not exist yet and across reset boundaries.                  *)

MaxSequenceCalls == 3

MaxDayChanges == 2

\* One whole call; the response carries the key and the value returned.
GetNextSequence(key, resetPeriod) ==
    /\ budget["request"] > 0
    /\ budget' = Spend("request")
    /\ LET counter == getNextSequence(counters, key, resetPeriod, today)
       IN  /\ counters' = [counters EXCEPT ![key] = counter]
           /\ resp' = Response("getNextSequence", counter.seq, key, 200)
    /\ UNCHANGED << stock, stockMovements, sales, history, today, orders, mpesa,
                    clock, pc, loc >>

InitSequence ==
    /\ stock = InitialStock
    /\ stockMovements = [p \in Products |-> << >>]
    /\ sales = << >>
    /\ history = NoHistory
    /\ counters = NoCounters
    /\ today = Day0
    /\ orders = << >>
    /\ mpesa = << >>
    /\ clock = 0
    /\ pc = << >>
    /\ loc = << >>
    /\ resp = NoResponse
    /\ budget = [NoBudget EXCEPT !["request"] = MaxSequenceCalls,
                                 !["tick"] = MaxDayChanges]

NextSequence ==
    \/ \E key \in DOMAIN NoCounters, rp \in ResetPeriods : GetNextSequence(key, rp)
    \/ \E d \in Dates : NextDay(d)

SpecSequence == InitSequence /\ [][NextSequence]_vars

\* C26: called one at a time, getNextSequence returns 1 for a key that does
\* not exist yet, 1 with lastReset stamped when the reset boundary has been
\* crossed, and otherwise one more than the call before it on that key.
C26_SequentialSequence ==
    [][ resp'.op = "getNextSequence"
        => LET counter == counters[resp'.arg]
           IN  IF counter = NoDoc
               THEN resp'.id = 1
               ELSE IF ShouldReset(counter.resetPeriod, today, counter.lastReset)
               THEN /\ resp'.id = 1
                    /\ counters'[resp'.arg].lastReset = today
               ELSE resp'.id = counter.seq + 1
      ]_vars

-----------------------------------------------------------------------------
(* Two updateOrderStatus requests to delivered in flight at once            *)
(* (SpecOrderRace).  Each await of the handler is a step: Order.findById,   *)
(* the save of order.updateStatus, and the findById and save of every stock *)
(* update.                                                                  *)

NumDeliverers == 2

Deliverers == 1..NumDeliverers

DelivererIdle == [ snap |-> NoDoc, idx |-> 1, previousStock |-> 0 ]

\* An order as createOrder and three accepted status updates leave it, and
\* the same order once a delivery person is assigned.
ReadyOrder(items) ==
    updateStatus(
        updateStatus(
            updateStatus(
                NewOrder(items, OrderNumber(Day0, NextOrderCounter(NoDoc, Day0).seq)),
                "confirmed", Requester),
            "processing", Requester),
        "ready", Requester)

DeliverableOrders ==
    { ReadyOrder(items) :
        items \in { l \in ItemLists(OrderItemInputs) : StockAvailable(InitialStock, l) } }
    \cup
    { assignToDeliveryPerson(ReadyOrder(items), DeliveryPerson) :
        items \in { l \in ItemLists(OrderItemInputs) : StockAvailable(InitialStock, l) } }

\* save() of a document whose status was set and whose history was pushed
\* to: the status is written as it is in memory, the new entries are
\* appended to the stored array.
SaveOrder(stored, snap, doc) ==
    [stored EXCEPT
        !.status = doc.status,
        !.statusHistory =
            @ \o SubSeq(doc.statusHistory, Len(snap.statusHistory) + 1,
                        Len(doc.statusHistory))]

\* Order.findById and the transition check.
DeliverFind(h) ==
    /\ pc[h] = "find"
    /\ LET snap == orders[1]
       IN  IF "delivered" \notin validTransitions[snap.status]
           THEN /\ pc' = [pc EXCEPT ![h] = "rejected"]
                /\ loc' = loc
                /\ resp' = Response("updateOrderStatus", 1, "delivered", 400)
           ELSE /\ pc' = [pc EXCEPT ![h] = "status_save"]
                /\ loc' = [loc EXCEPT ![h].snap = snap]
                /\ resp' = resp
    /\ UNCHANGED << orders, stock, stockMovements >>
    /\ UNCHANGED << sales, history, counters, today, mpesa, clock, budget >>

\* After the last item the handler fails on the notification settings
\* lookup and answers with a server error.
DeliverAdvance(h) ==
    IF loc[h].idx < Len(loc[h].snap.items)
    THEN /\ pc' = [pc EXCEPT ![h] = "stock_find"]
         /\ loc' = [loc EXCEPT ![h].idx = @ + 1]
         /\ resp' = resp
    ELSE /\ pc' = [pc EXCEPT ![h] = "answered"]
         /\ loc' = loc
         /\ resp' = Response("updateOrderStatus", 1, "delivered", 500)

\* await order.updateStatus("delivered", ...)
DeliverStatusSave(h) ==
    /\ pc[h] = "status_save"
    /\ orders' = [orders EXCEPT ![1] =
                     SaveOrder(@, loc[h].snap,
                               updateStatus(loc[h].snap, "delivered", Requester))]
    /\ pc' = [pc EXCEPT ![h] = "stock_find"]
    /\ loc' = [loc EXCEPT ![h].idx = 1]
    /\ UNCHANGED << stock, stockMovements, resp >>
    /\ UNCHANGED << sales, history, counters, today, mpesa, clock, budget >>

\* Delivery loop: Product.findById
DeliverStockFind(h) ==
    /\ pc[h] = "stock_find"
    /\ LET p == loc[h].snap.items[loc[h].idx].product
       IN  IF trackInventory[p]
           THEN /\ pc' = [pc EXCEPT ![h] = "stock_save"]
                /\ loc' = [loc EXCEPT ![h].previousStock = stock[p]]
                /\ resp' = resp
           ELSE DeliverAdvance(h)
    /\ UNCHANGED << orders, stock, stockMovements >>
    /\ UNCHANGED << sales, history, counters, today, mpesa, clock, budget >>

\* Delivery loop: product.updateStock on the document read before.
DeliverStockSave(h) ==
    /\ pc[h] = "stock_save"
    /\ LET item == loc[h].snap.items[loc[h].idx]
           r == updateStock(Inv, item.product, loc[h].previousStock,
                            item.quantity, "sale", loc[h].snap.orderNumber,
                            "Order delivered")
       IN  /\ stock' = r.stock
           /\ stockMovements' = r.mov
           /\ IF r.ok THEN DeliverAdvance(h)
              ELSE /\ pc' = [pc EXCEPT ![h] = "failed"]
                   /\ loc' = loc
                   /\ resp' = Response("updateOrderStatus", 1, "delivered", 500)
    /\ UNCHANGED orders
    /\ UNCHANGED << sales, history, counters, today, mpesa, clock, budget >>

InitOrderRace ==
    /\ stock = InitialStock
    /\ stockMovements = [p \in Products |-> << >>]
    /\ sales = << >>
    /\ history = NoHistory
    /\ counters = [NoCounters EXCEPT !["order"] = NextOrderCounter(NoDoc, Day0)]
    /\ today = Day0
    /\ \E order \in DeliverableOrders : orders = << order >>
    /\ mpesa = << >>
    /\ clock = 0
    /\ pc = [h \in Deliverers |-> "find"]
    /\ loc = [h \in Deliverers |-> DelivererIdle]
    /\ resp = NoResponse
    /\ budget = NoBudget

NextOrderRace ==
    \/ \E h \in Deliverers : DeliverFind(h)
    \/ \E h \in Deliverers : DeliverStatusSave(h)
    \/ \E h \in Deliverers : DeliverStockFind(h)
    \/ \E h \in Deliverers : DeliverStockSave(h)

SpecOrderRace == InitOrderRace /\ [][NextOrderRace]_vars

-----------------------------------------------------------------------------
(* The totals hook of Sale on its own (SpecTotals): a request is cast to    *)
(* the item schema, validated, and handed to the hook.  Amounts are kept in *)
(* units of 1/Scale so that percentages of percentages are exact; a number  *)
(* is a record that says whether it is NaN.                                 *)

Scale == 100 * 100

Num(v) == [ nan |-> FALSE, v |-> v ]

NaN == [ nan |-> TRUE, v |-> 0 ]

Plus(a, b) == IF a.nan \/ b.nan THEN NaN ELSE Num(a.v + b.v)

Minus(a, b) == IF a.nan \/ b.nan THEN NaN ELSE Num(a.v - b.v)

\* a * (r / 100)
PercentOf(a, r) == IF a.nan \/ r.nan THEN NaN ELSE Num((a.v * r.v) \div 100)

\* What a point of sale sends per line: quantity, price, a discount as a
\* percentage or an amount, the tax rate of the line, and the line amount it
\* quotes (none, zero, or price less discount plus tax).
TotalsRequestItems ==
    [ quantity : Quantities, unitPrice : {100}, percentage : {0, 10},
      amount : {0, 20}, rate : {0, 16}, quote : {"none", "zero", "quoted"} ]

\* The line amount at the rate the request names: (unitPrice x quantity -
\* discount) plus the rate applied to the discounted amount.
QuotedSubtotal(req) ==
    LET itemSubtotal == Num(req.unitPrice * req.quantity * Scale)
        discount == IF req.percentage > 0
                    THEN PercentOf(itemSubtotal, Num(req.percentage))
                    ELSE IF req.amount > 0 THEN Num(req.amount * Scale)
                    ELSE Num(0)
        taxableAmount == Minus(itemSubtotal, discount)
    IN  Plus(taxableAmount, PercentOf(taxableAmount, Num(req.rate)))

\* new Sale({items}): the item keeps the paths the schema declares, with
\* their defaults; tax has the one path amount.
CastItem(req) ==
    [ quantity |-> req.quantity,
      unitPrice |-> req.unitPrice,
      discount |-> [ amount |-> req.amount, percentage |-> req.percentage ],
      tax |-> [ amount |-> Num(0) ],
      subtotal |-> CASE req.quote = "none" -> NoDoc
                     [] req.quote = "zero" -> Num(0)
                     [] OTHER -> QuotedSubtotal(req) ]

\* item.tax.rate as the hook reads it: undefined on a path the item lacks,
\* and undefined / 100 is NaN.
TaxRateOf(item) ==
    IF "rate" \in DOMAIN item.tax THEN Num(item.tax.rate) ELSE NaN

ItemDiscount(item) ==
    LET itemSubtotal == Num(item.unitPrice * item.quantity * Scale)
    IN  IF item.discount.percentage > 0
        THEN PercentOf(itemSubtotal, Num(item.discount.percentage))
        ELSE IF item.discount.amount > 0 THEN Num(item.discount.amount * Scale)
        ELSE Num(0)

ItemTax(item) ==
    LET itemSubtotal == Num(item.unitPrice * item.quantity * Scale)
        taxableAmount == Minus(itemSubtotal, ItemDiscount(item))
    IN  PercentOf(taxableAmount, TaxRateOf(item))

\* Assigning to a Number path: NaN does not cast to a number, the path
\* keeps the value it had.
SetNumber(old, new) == IF new.nan THEN old ELSE new

\* The forEach body: what it stores on the item.
HookItem(item) ==
    LET itemSubtotal == Num(item.unitPrice * item.quantity * Scale)
        taxableAmount == Minus(itemSubtotal, ItemDiscount(item))
    IN  [item EXCEPT !.tax.amount = SetNumber(@, ItemTax(item)),
                     !.subtotal = SetNumber(@, Plus(taxableAmount, ItemTax(item)))]

\* The running sums of the forEach.
RECURSIVE SumNums(_)
SumNums(nums) ==
    IF nums = << >> THEN Num(0)
    ELSE Plus(Head(nums), SumNums(Tail(nums)))

\* The sale the totals hook leaves to be written; every path of totals
\* defaults to 0.
TotalsHook(items) ==
    LET subtotal == SumNums([i \in 1..Len(items) |->
                                    Num(items[i].unitPrice * items[i].quantity * Scale)])
        totalDiscount == SumNums([i \in 1..Len(items) |-> ItemDiscount(items[i])])
        totalTax == SumNums([i \in 1..Len(items) |-> ItemTax(items[i])])
    IN  [ items |-> [i \in 1..Len(items) |-> HookItem(items[i])],
          totals |-> [ subtotal |-> SetNumber(Num(0), subtotal),
                       discount |-> SetNumber(Num(0), totalDiscount),
                       tax |-> SetNumber(Num(0), totalTax),
                       total |-> SetNumber(Num(0),
                                     Plus(Minus(subtotal, totalDiscount), totalTax)) ] ]

\* sale.save() of a new sale: validation, which runs before the hooks,
\* requires every item's subtotal.  Whether the write still goes through
\* after the hook assigned a value that does not cast is left open: either
\* the document is written with the paths as they stand, or the save fails.
SaveSale(written) ==
    /\ sales = << >>
    /\ resp = NoResponse
    /\ LET items == [i \in 1..Len(loc) |-> CastItem(loc[i])]
       IN  IF written /\ \A i \in 1..Len(items) : items[i].subtotal # NoDoc
           THEN /\ sales' = << TotalsHook(items) >>
                /\ resp' = Response("saveSale", 1, "", 201)
           ELSE /\ sales' = sales
                /\ resp' = Response("saveSale", 0, "", 500)
    /\ UNCHANGED << stock, stockMovements, history, counters, today, orders,
                    mpesa, clock, pc, loc, budget >>

InitTotals ==
    /\ stock = InitialStock
    /\ stockMovements = [p \in Products |-> << >>]
    /\ sales = << >>
    /\ history = NoHistory
    /\ counters = NoCounters
    /\ today = Day0
    /\ orders = << >>
    /\ mpesa = << >>
    /\ clock = 0
    /\ pc = << >>
    /\ loc \in ItemLists(TotalsRequestItems)
    /\ resp = NoResponse
    /\ budget = NoBudget

NextTotals == \E written \in BOOLEAN : SaveSale(written)

SpecTotals == InitTotals /\ [][NextTotals]_vars

\* C29: in every saved sale each item's subtotal is (unitPrice x quantity -
\* discount) plus the item's tax rate applied to the discounted amount, and
\* totals.total is totals.subtotal - totals.discount + totals.tax and is the
\* sum of the item subtotals (2 x 100 at 10% discount and 16% tax: 208.8).
C29_TotalsRecomputed ==
    \A s \in 1..Len(sales) :
        /\ \A i \in 1..Len(sales[s].items) :
              sales[s].items[i].subtotal = QuotedSubtotal(loc[i])
        /\ sales[s].totals.total
               = Plus(Minus(sales[s].totals.subtotal, sales[s].totals.discount),
                      sales[s].totals.tax)
        /\ sales[s].totals.total
               = SumNums([i \in 1..Len(sales[s].items) |->
                             sales[s].items[i].subtotal])

====
